---- MODULE Spec2Model ----
(***************************************************************************)
(* Model of royal3pictures.py, the simulator of the casino game "Royal 3   *)
(* Pictures": the card model, the global DECK, calculate_payout,           *)
(* run_iteration and the __main__ simulation script.                       *)
(*                                                                         *)
(* Money.  calculate_payout returns wager * 1.5, which is not an integer   *)
(* for an odd wager.  Every money amount of the model (payout,             *)
(* initial_bankroll, current_bankroll) is therefore held in HALF units:    *)
(* the value v of the program is the integer 2*v of the model.  wager and  *)
(* runs are the program's integers (argparse type=int) and are not scaled. *)
(***************************************************************************)
EXTENDS Integers, Sequences, FiniteSets, TLC

VARIABLES
    DECK,              \* the module-level list DECK
    pc,                \* position of the __main__ script / of the call
    exception,         \* "none", or the exception that ended the script
    runs,              \* args.runs
    wager,             \* args.wager (also the wager parameter)
    initial_bankroll,  \* half units
    current_bankroll,  \* half units
    outcome_times,     \* dict OutcomeType -> int (a function on its keys)
    i,                 \* number of loop iterations completed
    player_hand,       \* run_iteration's player_hand
    dealer_hand,       \* run_iteration's dealer_hand
    payout,            \* last payout returned, half units
    outcome            \* last outcome returned

vars == <<DECK, pc, exception, runs, wager, initial_bankroll, current_bankroll,
          outcome_times, i, player_hand, dealer_hand, payout, outcome>>

----------------------------------------------------------------------------
(* Bounds of the model *)

\* args.runs ranges over -1 .. MaxRuns
MaxRuns == 4
\* args.wager ranges over -1 .. MaxWager
MaxWager == 1
\* an explicit --bankroll ranges over 0 .. MaxBankroll
MaxBankroll == 0
\* the random source of the shuffle: cuts of 0 .. MaxCut cards
MaxCut == 4

----------------------------------------------------------------------------
(* Card model *)

SUITS == <<"SPADES", "DIAMONDS", "HEARTS", "CLUBS">>

RANKS == <<"ACE", "TWO", "THREE", "FOUR", "FIVE", "SIX", "SEVEN", "EIGHT",
           "NINE", "TEN", "JACK", "QUEEN", "KING">>

\* Rank.value
RankValue ==
    [ACE |-> 1, TWO |-> 2, THREE |-> 3, FOUR |-> 4, FIVE |-> 5, SIX |-> 6,
     SEVEN |-> 7, EIGHT |-> 8, NINE |-> 9, TEN |-> 10,
     JACK |-> "J", QUEEN |-> "Q", KING |-> "K"]

is_face(rank) == rank \in {"JACK", "QUEEN", "KING"}

points(rank) == IF is_face(rank) THEN 0 ELSE RankValue[rank]

OutcomeType == {"EVEN_MONEY", "HALF_MONEY", "LOSS", "PUSH"}

Card(rank, suit) == [rank |-> rank, suit |-> suit]

\* itertools.product(RANKS, SUITS): ranks outermost, suits innermost
FullDeck ==
    [k \in 1..(Len(RANKS) * Len(SUITS)) |->
        Card(RANKS[((k - 1) \div Len(SUITS)) + 1],
             SUITS[((k - 1) % Len(SUITS)) + 1])]

----------------------------------------------------------------------------
(* calculate_payout *)

RECURSIVE SumPoints(_)
\* sum(x.rank.points() for x in hand)
SumPoints(hand) ==
    IF hand = <<>> THEN 0
    ELSE points(Head(hand).rank) + SumPoints(Tail(hand))

\* len(list(filter(lambda x: x.rank.is_face(), hand)))
Pictures(hand) == Len(SelectSeq(hand, LAMBDA x : is_face(x.rank)))

\* HandPoints with the modulo forgotten
HandPoints_NoModulo(hand) == SumPoints(hand)

\* sum(...) % 10: the modulo is taken once, after summing
HandPoints(hand) == SumPoints(hand) % 10

\* calculate_payout with the point totals compared before the picture counts
calculate_payout_PointsFirst(w, ph, dh) ==
    LET player_pictures == Pictures(ph)
        dealer_pictures == Pictures(dh)
        player_points == HandPoints(ph)
        dealer_points == HandPoints(dh)
    IN  IF player_points > dealer_points
        THEN IF player_points # 6 THEN <<2 * (w * 2), "EVEN_MONEY">>
             ELSE <<w * 3, "HALF_MONEY">>
        ELSE IF dealer_points > player_points THEN <<0, "LOSS">>
        ELSE IF player_pictures > dealer_pictures THEN <<2 * (w * 2), "EVEN_MONEY">>
        ELSE IF dealer_pictures > player_pictures THEN <<0, "LOSS">>
        ELSE <<2 * w, "PUSH">>

\* calculate_payout with the dealer winning ties (>= at line 119)
calculate_payout_DealerWinsTies(w, ph, dh) ==
    LET player_pictures == Pictures(ph)
        dealer_pictures == Pictures(dh)
        player_points == HandPoints(ph)
        dealer_points == HandPoints(dh)
    IN  IF player_pictures > dealer_pictures THEN <<2 * (w * 2), "EVEN_MONEY">>
        ELSE IF dealer_pictures > player_pictures THEN <<0, "LOSS">>
        ELSE IF player_points > dealer_points
             THEN IF player_points # 6 THEN <<2 * (w * 2), "EVEN_MONEY">>
                  ELSE <<w * 3, "HALF_MONEY">>
        ELSE IF dealer_points >= player_points THEN <<0, "LOSS">>
        ELSE <<2 * w, "PUSH">>

\* returns <<payout in half units, outcome>>
calculate_payout(w, ph, dh) ==
    LET player_pictures == Pictures(ph)
        dealer_pictures == Pictures(dh)
        player_points == HandPoints(ph)
        dealer_points == HandPoints(dh)
    IN  IF player_pictures > dealer_pictures THEN <<2 * (w * 2), "EVEN_MONEY">>
        ELSE IF dealer_pictures > player_pictures THEN <<0, "LOSS">>
        ELSE IF player_points > dealer_points
             THEN IF player_points # 6 THEN <<2 * (w * 2), "EVEN_MONEY">>
                  ELSE <<w * 3, "HALF_MONEY">>
        ELSE IF dealer_points > player_points THEN <<0, "LOSS">>
        ELSE <<2 * w, "PUSH">>

----------------------------------------------------------------------------
(* run_iteration *)

\* The random source, bounded: a shuffle cuts the deck by rnd.cut cards and,
\* when rnd.rev, turns it over.  These permutations generate a finite group
\* (rotations and reflections of the 52 positions), so the set of decks a
\* run can reach stays small while the shuffle still acts on the current deck.
RandomSource == [cut : 0..MaxCut, rev : BOOLEAN]

\* random.shuffle(DECK): reorders the list in place
Shuffle(deck, rnd) ==
    LET n == Len(deck)
        cutAt(j) == ((j - 1 + rnd.cut) % n) + 1
    IN  [j \in 1..n |-> IF rnd.rev THEN deck[cutAt(n + 1 - j)] ELSE deck[cutAt(j)]]

\* DECK[0:3]
PlayerSlice(deck) == SubSeq(deck, 1, 3)

\* DealerSlice off by one: DECK[2:5]
DealerSlice_Overlap(deck) == SubSeq(deck, 3, 5)

\* DECK[3:6]
DealerSlice(deck) == SubSeq(deck, 4, 6)

\* DeckAfterDeal with the six cards popped off the list instead of sliced
DeckAfterDeal_Pop(deck) == SubSeq(deck, 7, Len(deck))

\* the list DECK after the two hands were sliced off it: slicing copies
DeckAfterDeal(deck) == deck

----------------------------------------------------------------------------
(* __main__ *)

\* Tally that always assigns 1, as in the except branch
Tally_Overwrite(ot, o) ==
    [k \in (DOMAIN ot) \cup {o} |-> IF k = o THEN 1 ELSE ot[k]]

\* outcome_times[outcome] += 1, or = 1 on KeyError
Tally(ot, o) ==
    IF o \in DOMAIN ot
    THEN [ot EXCEPT ![o] = @ + 1]
    ELSE [k \in (DOMAIN ot) \cup {o} |-> IF k = o THEN 1 ELSE ot[k]]

\* LoopContinues with the loop stopped once the bankroll is negative
LoopContinues_BankrollFloor(k, n) == k < n /\ current_bankroll >= 0

\* for i in range(0, args.runs): another iteration follows k completed ones
LoopContinues(k, n) == k < n

\* --bankroll: absent (<<>>, the default None) or an integer
BankrollArgs == {<<>>} \cup {<<b>> : b \in 0..MaxBankroll}

Init ==
    /\ DECK = FullDeck
    /\ pc = "start"
    /\ exception = "none"
    /\ runs = 0
    /\ wager = 0
    /\ initial_bankroll = 0
    /\ current_bankroll = 0
    /\ outcome_times = <<>>
    /\ i = 0
    /\ player_hand = <<>>
    /\ dealer_hand = <<>>
    /\ payout = 0
    /\ outcome = "none"

\* lines 136-158: parse the arguments, default the bankroll, set up the run
Setup ==
    /\ pc = "start"
    /\ \E n \in (0 - 1)..MaxRuns, w \in (0 - 1)..MaxWager, b \in BankrollArgs :
        LET bankroll == IF b = <<>> THEN n ELSE b[1]
        IN  /\ runs' = n
            /\ wager' = w
            /\ initial_bankroll' = 2 * bankroll
            /\ current_bankroll' = 2 * bankroll
    /\ outcome_times' = <<>>
    /\ pc' = "loop"
    /\ UNCHANGED <<DECK, exception, i, player_hand, dealer_hand, payout, outcome>>

\* lines 160-169: one iteration of the loop, run_iteration included
Trial ==
    /\ pc = "loop"
    /\ LoopContinues(i, runs)
    /\ \E rnd \in RandomSource :
        LET shuffled == Shuffle(DECK, rnd)
            ph == PlayerSlice(shuffled)
            dh == DealerSlice(shuffled)
            res == calculate_payout(wager, ph, dh)
        IN  /\ DECK' = DeckAfterDeal(shuffled)
            /\ player_hand' = ph
            /\ dealer_hand' = dh
            /\ payout' = res[1]
            /\ outcome' = res[2]
            /\ current_bankroll' = (current_bankroll - 2 * wager) + res[1]
            /\ outcome_times' = Tally(outcome_times, res[2])
    /\ i' = i + 1
    /\ UNCHANGED <<pc, exception, runs, wager, initial_bankroll>>

\* the loop is exhausted
LoopExit ==
    /\ pc = "loop"
    /\ ~LoopContinues(i, runs)
    /\ pc' = "edge"
    /\ UNCHANGED <<DECK, exception, runs, wager, initial_bankroll, current_bankroll,
                   outcome_times, i, player_hand, dealer_hand, payout, outcome>>

\* lines 171-174: edge = (initial_bankroll - current_bankroll) / initial_bankroll
HouseEdge ==
    /\ pc = "edge"
    /\ IF initial_bankroll = 0
       THEN pc' = "raised" /\ exception' = "ZeroDivisionError"
       ELSE pc' = "counts" /\ exception' = exception
    /\ UNCHANGED <<DECK, runs, wager, initial_bankroll, current_bankroll,
                   outcome_times, i, player_hand, dealer_hand, payout, outcome>>

\* lines 176-180: outcome_times[...] of each of the four outcomes
ReadCounts ==
    /\ pc = "counts"
    /\ IF OutcomeType \subseteq DOMAIN outcome_times
       THEN pc' = "rates" /\ exception' = exception
       ELSE pc' = "raised" /\ exception' = "KeyError"
    /\ UNCHANGED <<DECK, runs, wager, initial_bankroll, current_bankroll,
                   outcome_times, i, player_hand, dealer_hand, payout, outcome>>

\* lines 181-184: count / total, total = args.runs
Rates ==
    /\ pc = "rates"
    /\ IF runs = 0
       THEN pc' = "raised" /\ exception' = "ZeroDivisionError"
       ELSE pc' = "done" /\ exception' = exception
    /\ UNCHANGED <<DECK, runs, wager, initial_bankroll, current_bankroll,
                   outcome_times, i, player_hand, dealer_hand, payout, outcome>>

Next == Setup \/ Trial \/ LoopExit \/ HouseEdge \/ ReadCounts \/ Rates

Spec == Init /\ [][Next]_vars

----------------------------------------------------------------------------
(* calculate_payout on its own: every deal of two hands from one deck *)

\* Three rank positions of RANKS in non-decreasing order: a hand up to the
\* order of its cards (the sum and the filter of calculate_payout read a hand
\* card by card and do not depend on that order).
RankTriples ==
    {t \in (1..Len(RANKS)) \X (1..Len(RANKS)) \X (1..Len(RANKS)) :
        t[1] <= t[2] /\ t[2] <= t[3]}

\* how many of the cards dealt before the j-th have its rank
Earlier(s, j) == Cardinality({k \in 1..(j - 1) : s[k] = s[j]})

\* the six ranks s can be dealt from one deck: at most one card per suit
Dealable(s) == \A j \in 1..Len(s) : Earlier(s, j) < Len(SUITS)

\* the j-th card dealt: the next suit of its rank not dealt yet
DealtCard(s, j) == Card(RANKS[s[j]], SUITS[Earlier(s, j) + 1])

\* the arguments of a call: wager, player_hand, dealer_hand
InitPayout ==
    /\ DECK = FullDeck
    /\ pc = "call"
    /\ exception = "none"
    /\ runs = 0
    /\ wager \in (0 - 1)..MaxWager
    /\ initial_bankroll = 0
    /\ current_bankroll = 0
    /\ outcome_times = <<>>
    /\ i = 0
    /\ \E t \in RankTriples, u \in RankTriples :
        /\ Dealable(t \o u)
        /\ player_hand = [j \in 1..3 |-> DealtCard(t \o u, j)]
        /\ dealer_hand = [j \in 1..3 |-> DealtCard(t \o u, j + 3)]
    /\ payout = 0
    /\ outcome = "none"

\* payout, outcome = calculate_payout(wager, player_hand, dealer_hand)
PayoutCall ==
    /\ pc = "call"
    /\ LET res == calculate_payout(wager, player_hand, dealer_hand)
       IN  payout' = res[1] /\ outcome' = res[2]
    /\ pc' = "returned"
    /\ UNCHANGED <<DECK, exception, runs, wager, initial_bankroll, current_bankroll,
                   outcome_times, i, player_hand, dealer_hand>>

NextPayout == PayoutCall

SpecPayout == InitPayout /\ [][NextPayout]_vars

----------------------------------------------------------------------------
(* The claims.  Their vocabulary is defined here from the game's rules,    *)
(* apart from the operators of the model above.                            *)

\* a picture is a Jack, a Queen or a King
RulePictures(hand) ==
    Cardinality({j \in DOMAIN hand : hand[j].rank \in {"JACK", "QUEEN", "KING"}})

\* points of a card: pictures 0, Ace..Ten 1..10
RuleCardPoints(card) ==
    CASE card.rank = "ACE" -> 1 [] card.rank = "TWO" -> 2
      [] card.rank = "THREE" -> 3 [] card.rank = "FOUR" -> 4
      [] card.rank = "FIVE" -> 5 [] card.rank = "SIX" -> 6
      [] card.rank = "SEVEN" -> 7 [] card.rank = "EIGHT" -> 8
      [] card.rank = "NINE" -> 9 [] card.rank = "TEN" -> 10
      [] OTHER -> 0

\* the sum of the three cards' points, before the modulo
RuleRawTotal(hand) ==
    RuleCardPoints(hand[1]) + RuleCardPoints(hand[2]) + RuleCardPoints(hand[3])

\* the point total: the sum reduced modulo 10 once
RulePointTotal(hand) == RuleRawTotal(hand) % 10

\* the count of an outcome, 0 when the outcome never occurred
CountOf(o) == IF o \in DOMAIN outcome_times THEN outcome_times[o] ELSE 0

CountSum ==
    CountOf("EVEN_MONEY") + CountOf("HALF_MONEY") + CountOf("LOSS") + CountOf("PUSH")

\* the script is past its loop
AfterLoop == pc \in {"edge", "counts", "rates", "done", "raised"}

\* C1: picture counts decide before points.  Fewer player pictures than
\* dealer pictures is LOSS with payout 0, more is EVEN_MONEY with payout
\* 2*wager (4*wager half units), whatever the two point totals are.
C1_PicturesDominate ==
    pc = "returned" =>
        /\ RulePictures(player_hand) < RulePictures(dealer_hand)
              => outcome = "LOSS" /\ payout = 0
        /\ RulePictures(player_hand) > RulePictures(dealer_hand)
              => outcome = "EVEN_MONEY" /\ payout = 4 * wager

\* the player has fewer pictures and the higher point total, and loses
C1_Witness ==
    /\ pc = "returned"
    /\ RulePictures(player_hand) < RulePictures(dealer_hand)
    /\ RulePointTotal(player_hand) > RulePointTotal(dealer_hand)
    /\ outcome = "LOSS"
    /\ wager > 0

\* C2: HALF_MONEY (payout 1.5*wager, 3*wager half units) is returned if and
\* only if the picture counts are equal, the player's point total is strictly
\* greater than the dealer's and the player's point total is exactly 6, the
\* total being the sum of the three cards' points modulo 10, taken once.
C2_HalfMoneyIff ==
    pc = "returned" =>
        /\ (outcome = "HALF_MONEY" /\ payout = 3 * wager)
              <=> /\ RulePictures(player_hand) = RulePictures(dealer_hand)
                  /\ RulePointTotal(player_hand) > RulePointTotal(dealer_hand)
                  /\ RulePointTotal(player_hand) = 6
        /\ outcome = "HALF_MONEY" => payout = 3 * wager

\* a HALF_MONEY whose winning 6 is a sum of 16 or 26 reduced modulo 10
C2_Witness ==
    /\ pc = "returned"
    /\ outcome = "HALF_MONEY"
    /\ RuleRawTotal(player_hand) > 10
    /\ RuleRawTotal(dealer_hand) > 10
    /\ wager = 1
    /\ payout = 3

\* C3: equal picture counts and equal point totals (modulo 10) give PUSH
\* with a payout equal to the wager (2*wager half units).
C3_PushReturnsStake ==
    (/\ pc = "returned"
     /\ RulePictures(player_hand) = RulePictures(dealer_hand)
     /\ RulePointTotal(player_hand) = RulePointTotal(dealer_hand))
        => outcome = "PUSH" /\ payout = 2 * wager

\* a PUSH between hands whose sums differ and agree only modulo 10
C3_Witness ==
    /\ pc = "returned"
    /\ outcome = "PUSH"
    /\ RuleRawTotal(player_hand) # RuleRawTotal(dealer_hand)
    /\ wager = 1
    /\ payout = 2

\* the set of the cards of a hand
CardsOf(hand) == {hand[j] : j \in DOMAIN hand}

\* C4: in every trial the player hand and the dealer hand are each exactly
\* 3 cards and share no card.
C4_HandsDisjoint ==
    i > 0 =>
        /\ Len(player_hand) = 3
        /\ Len(dealer_hand) = 3
        /\ Cardinality(CardsOf(player_hand)) = 3
        /\ Cardinality(CardsOf(dealer_hand)) = 3
        /\ CardsOf(player_hand) \cap CardsOf(dealer_hand) = {}

\* a third trial, dealt from a deck that earlier trials reordered
C4_Witness ==
    /\ i >= 3
    /\ Len(player_hand) = 3
    /\ Len(dealer_hand) = 3
    /\ player_hand # SubSeq(FullDeck, 1, 3)

\* the 52 canonical cards: one per rank-suit pair
CanonicalCards ==
    [rank : {"ACE", "TWO", "THREE", "FOUR", "FIVE", "SIX", "SEVEN", "EIGHT",
             "NINE", "TEN", "JACK", "QUEEN", "KING"},
     suit : {"SPADES", "DIAMONDS", "HEARTS", "CLUBS"}]

\* C5: at every point of a run DECK is a permutation of exactly the 52
\* canonical cards: no duplicates, none missing.
C5_DeckPermutation ==
    /\ Len(DECK) = 52
    /\ Cardinality(CanonicalCards) = 52
    /\ CardsOf(DECK) = CanonicalCards

\* the deck after three shuffles and deals, in another order than at start
C5_Witness ==
    /\ i >= 3
    /\ DECK # FullDeck
    /\ Len(DECK) = 52

\* C6: after k completed trials the four counts sum to k, so that after the
\* loop they sum to runs (runs >= 0); each trial increments exactly one
\* count by one and leaves the other three alone.
C6_CountsSumToRuns ==
    /\ [](CountSum = i)
    /\ []((AfterLoop /\ runs >= 0) => CountSum = runs)
    /\ [][i' # i =>
            \E o \in OutcomeType :
                /\ CountOf(o)' = CountOf(o) + 1
                /\ \A q \in OutcomeType \ {o} : CountOf(q)' = CountOf(q)]_vars

\* a finished run of three or more trials in which an outcome repeated
C6_Witness ==
    /\ AfterLoop
    /\ runs >= 3
    /\ CountSum = runs
    /\ \E o \in OutcomeType : CountOf(o) >= 2

\* C7: when the run completes, the mapping of outcome counts holds all four
\* OutcomeType keys, so that reporting never fails on a missing key.
C7_AllKeysPresent ==
    AfterLoop => (DOMAIN outcome_times = OutcomeType /\ exception # "KeyError")

\* C8: with runs <= 0 or a negative wager the script does not proceed to the
\* loop or the report: no trial runs and the bankroll is left alone.
C8_InvalidParametersRejected ==
    (pc # "start" /\ (runs <= 0 \/ wager < 0)) =>
        /\ pc \notin {"loop", "edge", "counts", "rates", "done"}
        /\ i = 0
        /\ current_bankroll = initial_bankroll

\* C9: with runs or initial_bankroll zero, the divisions of the report do
\* not raise.
C9_DivisionsGuarded ==
    (pc # "start" /\ (runs = 0 \/ initial_bankroll = 0)) =>
        exception # "ZeroDivisionError"

\* C10: the loop performs exactly runs trials, with no stop on a negative
\* bankroll, and after k trials
\*   2*bankroll = 2*initial_bankroll + wager*(2*EVEN_MONEY + HALF_MONEY - 2*LOSS)
\* (current_bankroll and initial_bankroll are the doubled amounts already).
C10_BankrollAccounting ==
    /\ pc # "start" =>
          current_bankroll = initial_bankroll
              + wager * (2 * CountOf("EVEN_MONEY") + CountOf("HALF_MONEY")
                         - 2 * CountOf("LOSS"))
    /\ i <= (IF runs > 0 THEN runs ELSE 0)
    /\ AfterLoop => i = (IF runs > 0 THEN runs ELSE 0)

\* a run that went on to its last trial with the bankroll below zero
C10_Witness ==
    /\ AfterLoop
    /\ runs >= 3
    /\ i = runs
    /\ wager = 1
    /\ current_bankroll < 0
    /\ current_bankroll - payout + 2 * wager < 0
    /\ CountOf("HALF_MONEY") >= 1
    /\ CountOf("PUSH") >= 1

====
